---- MODULE Spec2Model ----
(***************************************************************************)
(* GPIO register addressing, pin-function packing and the lifetime of the  *)
(* /dev/mem mapping, as implemented in src/src/lib.rs.                     *)
(*                                                                         *)
(* A u32 that is used as a bit pattern is a function 0..31 -> {0,1}        *)
(* (bit 0 is the least significant bit), so shifts drop the bits that      *)
(* leave the 32-bit word and complements cover all 32 bits.                *)
(***************************************************************************)
EXTENDS Integers, Sequences, FiniteSets, TLC

\* ------------------------------------------------------------------ bounds
\* largest pin number a caller passes (pins are u32; 58 and above are illegal)
MaxPin == 60
\* register words 0..MaxWord a caller reads before a read-modify-write
MaxWord == 2
\* number of GPIO::new() calls the process makes
MaxMgr == 2
\* addresses the kernel may pick for a mapping
MaxAddr == 2

\* --------------------------------------------------------------- constants
REGISTER_SIZE == 4
GPIO_PIN_COUNT == 58
GPIO_FUNCS_PER_REGISTER == 10
GPIO_PUPPUD_PER_REGISTER == 16
GPIO_BLOCK_SIZE == 256

\* enum Register: the discriminant is the base byte offset
Register ==
    [ GPFSEL |-> 0,
      GPSET |-> 28, GPCLR |-> 40, GPLEV |-> 52, GPEDS |-> 64, GPREN |-> 76,
      GPFEN |-> 88, GPHEN |-> 100, GPLEN |-> 112, GPAREN |-> 124,
      GPAFEN |-> 136,
      GPPUPPDNCNTRL |-> 228 ]

RegisterKinds == DOMAIN Register

\* enum PinFunction: the discriminant is the 3-bit function code
PinFunction ==
    [ Input |-> 0, Output |-> 1, Alt0 |-> 4, Alt1 |-> 5,
      Alt2 |-> 6, Alt3 |-> 7, Alt4 |-> 3, Alt5 |-> 2 ]

PinFunctions == DOMAIN PinFunction

\* ------------------------------------------------------- 32-bit arithmetic
Bits == 0..31

RECURSIVE Pow2(_)
Pow2(n) == IF n = 0 THEN 1 ELSE 2 * Pow2(n - 1)

\* a u32 literal below 2^31 as a bit pattern
U32(n) == [i \in Bits |-> IF i = 31 THEN 0 ELSE (n \div Pow2(i)) % 2]

\* x << s on u32: bits shifted past bit 31 are lost
Shl(x, s) == [i \in Bits |-> IF i >= s THEN x[i - s] ELSE 0]

\* !x on u32
Not32(x) == [i \in Bits |-> 1 - x[i]]

\* ------------------------------------------------------ Register addressing
\* assert!(pin < GPIO_PIN_COUNT, ...): TRUE when the assertion passes
assert_pin_index(p) == p < GPIO_PIN_COUNT

\* the bank test off by one: pin 32 addressed in the first word
register_offset_from33(p) == IF p > 32 THEN 4 ELSE 0

\* macro register_offset!
register_offset(p) == IF p > 31 THEN 4 ELSE 0

\* function select addressed with the 32-pin bank rule
gpfsel_offset_banked(p) == IF p > 31 THEN REGISTER_SIZE ELSE 0

gpfsel_offset_for(p) == (p \div GPIO_FUNCS_PER_REGISTER) * REGISTER_SIZE

\* pull-up/pull-down addressed ten pins per word
gp_pullup_pulldown_by10(p) ==
    Register.GPPUPPDNCNTRL + (p \div GPIO_FUNCS_PER_REGISTER) * REGISTER_SIZE

\* pull-up/pull-down addressed eight pins per word
gp_pullup_pulldown_by8(p) ==
    Register.GPPUPPDNCNTRL + (p \div 8) * REGISTER_SIZE

gp_pullup_pulldown(p) ==
    Register.GPPUPPDNCNTRL + (p \div GPIO_PUPPUD_PER_REGISTER) * REGISTER_SIZE

gp2reg_offset_for(base, p) == base + register_offset(p)

Panicked == [status |-> "panicked", v |-> 0]
Returned(x) == [status |-> "returned", v |-> x]
NotCalled == [status |-> "none", v |-> 0]

\* Register::to_offset(self, pin)
to_offset(k, p) ==
    IF ~assert_pin_index(p) THEN Panicked
    ELSE IF k = "GPFSEL" THEN Returned(gpfsel_offset_for(p))
    ELSE IF k = "GPPUPPDNCNTRL" THEN Returned(gp_pullup_pulldown(p))
    ELSE Returned(gp2reg_offset_for(Register[k], p))

\* the field taken to be four bits wide
to_bits_width4(f, p) == Returned(Shl(U32(PinFunction[f]), (p % 10) * 4))

\* PinFunction::to_bits(&self, pin)
to_bits(f, p) == Returned(Shl(U32(PinFunction[f]), (p % 10) * 3))

\* the mask of a two-bit field
clear_mask_2bits(p) == Returned(Not32(Shl(U32(3), (p % 10) * 3)))

\* PinFunction::clear_mask(pin)
clear_mask(p) == Returned(Not32(Shl(U32(7), (p % 10) * 3)))

\* the register words a caller may have read: all zeros, all ones, and
\* words with every n-th bit set
Word(n) ==
    [i \in Bits |-> IF n = 0 THEN 0 ELSE IF n = 1 THEN 1
                    ELSE IF i % n = 0 THEN 1 ELSE 0]

Words == {Word(n) : n \in 0..MaxWord}

\* -------------------------------------------------- Mapped region manager
Mgrs == 1..MaxMgr
Addrs == 1..MaxAddr
NULL == 0

\* pub struct Error { message, errno }
Error(message, errno) == [message |-> message, errno |-> errno]

\* Error::from_io: errno is raw_os_error() of the io::Error, when it has one
from_io(message, e) == Error(message, e.errno)

\* Error::from_nix: errno is as_errno() of the nix::Error
from_nix(message, e) == Error(message, e.errno)

Ok(x) == [ok |-> TRUE, v |-> x, err |-> Error("", "none")]
Err(e) == [ok |-> FALSE, v |-> NULL, err |-> e]

\* the stub: 0xfe200000 as <<high 16 bits, low 16 bits>>, always Ok
detect_peripheral_base == Ok(<<65056, 0>>)

\* what open("/dev/mem", O_RDWR) can answer
OpenOutcomes ==
    {[ok |-> TRUE, errno |-> "none"]}
        \cup {[ok |-> FALSE, errno |-> e] : e \in {"ENOENT", "EACCES"}}

\* what mmap(NULL, GPIO_BLOCK_SIZE, ..., fd, base) can answer: an address the
\* kernel has not handed out, or an errno
MmapOutcomes(free) ==
    {[ok |-> TRUE, addr |-> a, errno |-> "none"] : a \in free}
        \cup {[ok |-> FALSE, addr |-> NULL, errno |-> e] :
                e \in {"EPERM", "EINVAL", "ENOMEM"}}

\* what munmap(buffer, GPIO_BLOCK_SIZE) can answer
MunmapOutcomes ==
    {[ok |-> TRUE, errno |-> "none"], [ok |-> FALSE, errno |-> "EINVAL"]}

\* open_file(path): Ok(file) or Err("failed to open <path>" with the errno)
open_file(path, o) ==
    IF o.ok THEN Ok(path) ELSE Err(from_io("failed to open /dev/mem", o))

\* the result of open_file not propagated with `?`: mmap runs on a bad fd
new_unchecked_open(o, m) ==
    IF ~o.ok \/ ~m.ok
    THEN [ret |-> Err(from_nix(
                      "failed to map the GPIO (0xFE200000) from /dev/mem ",
                      IF o.ok THEN m ELSE [errno |-> "EBADF"])),
          mapCalled |-> TRUE, closed |-> o.ok]
    ELSE [ret |-> Ok(m.addr), mapCalled |-> TRUE, closed |-> TRUE]

\* GPIO::new(), given what open and mmap answer when they are called.
\* ret is the function's result; mapCalled tells whether the body reached
\* mmap, closed whether it opened a File (dropped, so closed, on return).
new(o, m) ==
    LET fp == open_file("/dev/mem", o) IN
    IF ~fp.ok
    THEN [ret |-> Err(fp.err), mapCalled |-> FALSE, closed |-> FALSE]
    ELSE LET gpio_offset == detect_peripheral_base IN
         IF ~gpio_offset.ok
         THEN [ret |-> Err(gpio_offset.err), mapCalled |-> FALSE,
               closed |-> TRUE]
         ELSE IF ~m.ok
         THEN [ret |-> Err(from_nix(
                       "failed to map the GPIO (0xFE200000) from /dev/mem ", m)),
               mapCalled |-> TRUE, closed |-> TRUE]
         ELSE [ret |-> Ok(m.addr), mapCalled |-> TRUE, closed |-> TRUE]

\* a Drop that unmaps nothing
drop_leaks(u) == [munmaps |-> 0, surfaced |-> "none"]

\* a Drop that unwraps the result of munmap
drop_unwraps(u) == [munmaps |-> 1, surfaced |-> u.errno]

\* Drop for GPIO, given what munmap answers: the number of munmap calls on
\* self.buffer and what reaches the code that dropped the manager
drop(u) == [munmaps |-> 1, surfaced |-> "none"]

Fresh ==
    [pc |-> "start", st |-> "Unopened", buffer |-> NULL,
     result |-> [ok |-> FALSE, v |-> NULL, err |-> Error("", "none")],
     opens |-> 0, mmaps |-> 0, closes |-> 0, munmaps |-> 0,
     unmapRet |-> "none", surfaced |-> "none", ended |-> "none"]

ScopeEnds == {"return", "early_exit", "unwind"}

VARIABLES pin, kind, function, word, offsetRes, bitsRes, maskRes, mgr, live

avars == <<pin, kind, function, word, offsetRes, bitsRes, maskRes>>
vars == <<pin, kind, function, word, offsetRes, bitsRes, maskRes, mgr, live>>

\* a caller about to address a register: any pin, kind, function and word
Init ==
    /\ pin \in 0..MaxPin
    /\ kind \in RegisterKinds
    /\ function \in PinFunctions
    /\ word \in Words
    /\ offsetRes = NotCalled
    /\ bitsRes = NotCalled
    /\ maskRes = NotCalled
    /\ mgr = [i \in Mgrs |-> Fresh]
    /\ live = {}

\* a process that has built no manager yet; the addressing inputs are fixed
GpioInit ==
    /\ pin = 0
    /\ kind = "GPFSEL"
    /\ function = "Input"
    /\ word = Word(0)
    /\ offsetRes = NotCalled
    /\ bitsRes = NotCalled
    /\ maskRes = NotCalled
    /\ mgr = [i \in Mgrs |-> Fresh]
    /\ live = {}

CallToOffset ==
    /\ offsetRes.status = "none"
    /\ offsetRes' = to_offset(kind, pin)
    /\ UNCHANGED <<pin, kind, function, word, bitsRes, maskRes, mgr, live>>

CallToBits ==
    /\ bitsRes.status = "none"
    /\ bitsRes' = to_bits(function, pin)
    /\ UNCHANGED <<pin, kind, function, word, offsetRes, maskRes, mgr, live>>

CallClearMask ==
    /\ maskRes.status = "none"
    /\ maskRes' = clear_mask(pin)
    /\ UNCHANGED <<pin, kind, function, word, offsetRes, bitsRes, mgr, live>>

\* the i-th call of GPIO::new()
GPIO_new(i) ==
    /\ mgr[i].pc = "start"
    /\ \E o \in OpenOutcomes :
       \E m \in MmapOutcomes(Addrs \ {l.addr : l \in live}) :
          LET r == new(o, m) IN
          /\ mgr' = [mgr EXCEPT ![i] =
                 [@ EXCEPT !.pc = IF r.ret.ok THEN "holding" ELSE "failed",
                           !.st = IF r.ret.ok THEN "Mapped" ELSE "Unopened",
                           !.buffer = r.ret.v,
                           !.result = r.ret,
                           !.opens = 1,
                           !.mmaps = IF r.mapCalled THEN 1 ELSE 0,
                           !.closes = IF r.closed THEN 1 ELSE 0]]
          /\ live' = IF r.mapCalled /\ m.ok
                     THEN live \cup {[addr |-> m.addr, len |-> GPIO_BLOCK_SIZE,
                                      offset |-> detect_peripheral_base.v,
                                      owner |-> i]}
                     ELSE live
    /\ UNCHANGED avars

\* the scope that owns manager i ends (normal return, early exit or a panic
\* unwinding through it): the compiler runs Drop for GPIO
ScopeEnd(i, how) ==
    /\ mgr[i].pc = "holding"
    /\ \E u \in MunmapOutcomes :
          LET d == drop(u) IN
          /\ mgr' = [mgr EXCEPT ![i] =
                 [@ EXCEPT !.pc = "done",
                           !.st = IF d.munmaps > 0 THEN "Released" ELSE @,
                           !.munmaps = @ + d.munmaps,
                           !.unmapRet = IF d.munmaps > 0
                                        THEN (IF u.ok THEN "Ok" ELSE u.errno)
                                        ELSE @,
                           !.surfaced = d.surfaced,
                           !.ended = how]]
          /\ live' = IF d.munmaps > 0 /\ u.ok
                     THEN {l \in live : l.addr /= mgr[i].buffer}
                     ELSE live
    /\ UNCHANGED avars

Next == CallToOffset \/ CallToBits \/ CallClearMask

Spec == Init /\ [][Next]_vars

\* the managers' lifetimes
GpioNext ==
    \/ \E i \in Mgrs : GPIO_new(i)
    \/ \E i \in Mgrs : \E how \in ScopeEnds : ScopeEnd(i, how)

GpioSpec == GpioInit /\ [][GpioNext]_vars

\* ------------------------------------------------------------------ claims
ValidPin == pin < 58

\* the shift of a pin's field in its function-select word
FieldShift == (pin % 10) * 3

\* C1: a call of to_offset (any register kind), to_bits or clear_mask with a
\* pin of 58 or more panics; none of them returns a value.
C1_OutOfDomainPinFaults ==
    pin >= 58 =>
        /\ offsetRes.status /= "returned"
        /\ bitsRes.status /= "returned"
        /\ maskRes.status /= "returned"

\* C2: for a pin below 58, GPFSEL.to_offset(pin) returns (pin div 10) * 4,
\* whichever 32-pin bank the pin is in.
C2_GpfselOffset ==
    (kind = "GPFSEL" /\ ValidPin /\ offsetRes.status /= "none") =>
        offsetRes = [status |-> "returned", v |-> (pin \div 10) * 4]

C2_Witness ==
    /\ kind = "GPFSEL" /\ pin = 45
    /\ offsetRes = [status |-> "returned", v |-> 16]

\* base offsets of the ten one-bit-per-pin register kinds
BankedBase ==
    [ GPSET |-> 28, GPCLR |-> 40, GPLEV |-> 52, GPEDS |-> 64, GPREN |-> 76,
      GPFEN |-> 88, GPHEN |-> 100, GPLEN |-> 112, GPAREN |-> 124,
      GPAFEN |-> 136 ]

\* C3: for a pin below 58 and each of the ten one-bit-per-pin kinds,
\* to_offset(pin) returns the kind's base, plus 4 exactly when pin > 31.
C3_BankedOffset ==
    (kind \in DOMAIN BankedBase /\ ValidPin /\ offsetRes.status /= "none") =>
        offsetRes = [status |-> "returned",
                     v |-> BankedBase[kind] + (IF pin <= 31 THEN 0 ELSE 4)]

C3_Witness ==
    /\ kind = "GPAFEN" /\ pin = 32
    /\ offsetRes = [status |-> "returned", v |-> 140]

\* C4: for a pin below 58, GPPUPPDNCNTRL.to_offset(pin) returns
\* 0xE4 + (pin div 16) * 4.
C4_PullUpDownOffset ==
    (kind = "GPPUPPDNCNTRL" /\ ValidPin /\ offsetRes.status /= "none") =>
        offsetRes = [status |-> "returned", v |-> 228 + (pin \div 16) * 4]

C4_Witness ==
    /\ kind = "GPPUPPDNCNTRL" /\ pin = 24
    /\ offsetRes = [status |-> "returned", v |-> 232]

\* the function codes as the hardware defines them
Code ==
    [ Input |-> 0, Output |-> 1, Alt0 |-> 4, Alt1 |-> 5,
      Alt2 |-> 6, Alt3 |-> 7, Alt4 |-> 3, Alt5 |-> 2 ]

\* bit i of the natural number n
BitOf(n, i) == (n \div Pow2(i)) % 2

\* C5: for a pin below 58 and s = (pin mod 10) * 3, to_bits(f, pin) is the
\* 32-bit pattern of code(f) * 2^s, which fits in 32 bits (s <= 27), and
\* clear_mask(pin) is the 32-bit complement of 7 * 2^s.
C5_PackedValues ==
    ValidPin =>
        /\ bitsRes.status /= "none" =>
              /\ FieldShift <= 27
              /\ Code[function] * Pow2(FieldShift) < Pow2(30)
              /\ bitsRes.status = "returned"
              /\ \A i \in 0..30 :
                    bitsRes.v[i] = BitOf(Code[function] * Pow2(FieldShift), i)
              /\ bitsRes.v[31] = 0
        /\ maskRes.status /= "none" =>
              /\ maskRes.status = "returned"
              /\ \A i \in 0..30 :
                    maskRes.v[i] = 1 - BitOf(7 * Pow2(FieldShift), i)
              /\ maskRes.v[31] = 1

C5_Witness ==
    /\ function = "Alt3" /\ pin = 9
    /\ bitsRes.status = "returned" /\ bitsRes.v[29] = 1
    /\ maskRes.status = "returned" /\ maskRes.v[29] = 0

\* x & y and x | y on 32-bit patterns
And32(x, y) == [i \in Bits |-> x[i] * y[i]]
Or32(x, y) == [i \in Bits |-> IF x[i] + y[i] > 0 THEN 1 ELSE 0]

\* the word a caller stores: (word AND clear_mask) OR bits
Written == Or32(And32(word, maskRes.v), bitsRes.v)

\* C9: for a pin below 58, the written word holds code(f) in the three bits
\* at (pin mod 10) * 3 and equals the word read in every other bit.
C9_ReadModifyWrite ==
    (ValidPin /\ bitsRes.status = "returned" /\ maskRes.status = "returned") =>
        \A i \in Bits :
            Written[i] = IF i >= FieldShift /\ i <= FieldShift + 2
                         THEN BitOf(Code[function], i - FieldShift)
                         ELSE word[i]

C9_Witness ==
    /\ pin = 32 /\ function = "Alt5" /\ word = Word(1)
    /\ bitsRes.status = "returned" /\ maskRes.status = "returned"
    /\ Written[6] = 0 /\ Written[7] = 1 /\ Written[8] = 0
    /\ Written[5] = 1 /\ Written[9] = 1

\* C10: for a pin below 58 and any register kind, the returned offset is a
\* multiple of 4 and the register at it ends within the 0x100-byte block.
C10_OffsetInsideBlock ==
    (ValidPin /\ offsetRes.status /= "none") =>
        /\ offsetRes.status = "returned"
        /\ offsetRes.v % 4 = 0
        /\ offsetRes.v + 4 <= 256

C10_Witness ==
    /\ kind = "GPPUPPDNCNTRL" /\ pin = 57
    /\ offsetRes = [status |-> "returned", v |-> 240]

\* C6: a manager that new() built is unmapped exactly once, when its scope
\* ends, however it ends: while Mapped no munmap of its buffer was issued,
\* once its owner is done it is Released with exactly one munmap, and a
\* Released manager stays Released with no further munmap.
C6_ReleasedExactlyOnce ==
    /\ [](\A i \in Mgrs :
            /\ mgr[i].munmaps <= 1
            /\ mgr[i].st = "Mapped" => mgr[i].munmaps = 0
            /\ mgr[i].st = "Released" => mgr[i].munmaps = 1
            /\ (mgr[i].pc = "done" /\ mgr[i].result.ok) =>
                    mgr[i].st = "Released")
    /\ [][\A i \in Mgrs :
            mgr[i].st = "Released" =>
                /\ mgr'[i].st = "Released"
                /\ mgr'[i].munmaps = mgr[i].munmaps]_vars

C6_Witness ==
    \E i \in Mgrs : \E j \in Mgrs :
        /\ mgr[i].pc = "done" /\ mgr[i].ended = "unwind"
        /\ mgr[i].st = "Released" /\ mgr[i].munmaps = 1
        /\ mgr[j].st = "Mapped"

\* C7: new() is all or nothing. After a failed call the result is an Err
\* with the errno of the failing system call, there is no manager, no
\* mapping of that call is live, mmap was not called if open failed, and no
\* munmap is issued; a manager is Mapped only after open and mmap succeeded,
\* and then its buffer is the live mapping of 0x100 bytes.
C7_NewAllOrNothing ==
    \A i \in Mgrs :
        /\ mgr[i].pc = "failed" =>
              /\ ~mgr[i].result.ok
              /\ mgr[i].result.err.errno
                    \in {"ENOENT", "EACCES", "EPERM", "EINVAL", "ENOMEM"}
              /\ mgr[i].st = "Unopened"
              /\ mgr[i].buffer = NULL
              /\ mgr[i].munmaps = 0
              /\ mgr[i].surfaced = "none"
              /\ ~ \E l \in live : l.owner = i
              /\ mgr[i].result.err.errno \in {"ENOENT", "EACCES"} =>
                    (mgr[i].mmaps = 0 /\ mgr[i].closes = 0)
        /\ mgr[i].st = "Mapped" =>
              /\ mgr[i].result.ok
              /\ mgr[i].opens = 1 /\ mgr[i].mmaps = 1
              /\ mgr[i].buffer /= NULL
              /\ \E l \in live :
                    /\ l.owner = i /\ l.addr = mgr[i].buffer
                    /\ l.len = 256

C7_Witness ==
    \E i \in Mgrs : \E j \in Mgrs :
        /\ mgr[i].pc = "failed" /\ mgr[i].result.err.errno = "EACCES"
        /\ mgr[i].mmaps = 0
        /\ mgr[j].pc = "failed" /\ mgr[j].result.err.errno = "ENOMEM"
        /\ mgr[j].mmaps = 1

\* C8: when munmap fails during drop, the error is discarded: the owner
\* still finishes, the manager is Released, and nothing reaches the code
\* that dropped it.
C8_TeardownNeverFails ==
    \A i \in Mgrs :
        (mgr[i].munmaps > 0 /\ mgr[i].unmapRet \notin {"none", "Ok"}) =>
            /\ mgr[i].pc = "done"
            /\ mgr[i].st = "Released"
            /\ mgr[i].surfaced = "none"

C8_Witness ==
    \E i \in Mgrs :
        /\ mgr[i].unmapRet = "EINVAL" /\ mgr[i].st = "Released"
        /\ \E l \in live : l.addr = mgr[i].buffer
====
